---- MODULE Spec2Model ----
\* The cross-platform Pager component: the native implementation (gesture
\* disambiguation over react-native-pager-view events) and the web
\* implementation (synchronous tab selection with per-page scroll memory).
\* One build contains exactly one of the two; `platform` says which.
EXTENDS Integers, Sequences, FiniteSets, TLC

VARIABLES
    platform,         \* "native" | "web": which Pager implementation is built
    initialPage,      \* the initialPage prop
    selectedPage,     \* React state selectedPage
    lastOffset,       \* native: lastOffset.current
    lastDirection,    \* native: lastDirection.current (-1, 0, 1)
    scrollState,      \* native: scrollState.current ('' until the first phase event)
    pagerViewPage,    \* native: pages handed to pagerView.current.setPage by the last handler
    scrollYs,         \* web: scrollYs.current, per-page remembered window offset or Null
    windowScrollY,    \* web: window.scrollY
    hasAnchor,        \* web: anchorRef.current is an element
    emitted,          \* onPageSelected / onPageSelecting calls made by the last handler, in order
    emittedPhase,     \* onPageScrollStateChanged calls made by the last handler, in order
    scrolledTo,       \* web: arguments of the window.scrollTo calls made by the last handler
    leftSticking,     \* web, with the history of the memory kept: the pages whose entry
                      \* was last written by a sticking onSelect that selected another page
    lastEvent,        \* the last handler that ran, with its arguments and the
                      \* selectedPage it was called with (from)
    settleSelecting,  \* onPageSelecting calls made by onPageScroll since scrollState last changed value
    lastCommit,       \* the page of the most recent commit (<<>> before the first one)
    task,             \* web, statement by statement: where the running onTabBarSelect is, with its locals
    frame,            \* web, statement by statement: what the browser painted last
    nextId,           \* StringIdGenerator._nextId, least significant digit first
    chars,            \* StringIdGenerator._chars, one character per element
    returned,         \* the strings next() has returned so far, in call order
    serverPc,         \* createServer calls: where each call is
    serverId,         \* createServer calls: the id each call obtained (<<>> before)
    query,            \* ProfileFollows: what useProfileFollowsQuery gave the last render
    endReached        \* ProfileFollows: the onEndReached calls, each with what it did

vars == <<platform, initialPage, selectedPage, lastOffset, lastDirection,
          scrollState, pagerViewPage, scrollYs, windowScrollY, hasAnchor,
          emitted, emittedPhase, scrolledTo, leftSticking, lastEvent,
          settleSelecting, lastCommit, task, frame, nextId, chars, returned, serverPc, serverId,
          query, endReached>>

nativeVars == <<lastOffset, lastDirection, scrollState, pagerViewPage, settleSelecting>>
webVars == <<scrollYs, windowScrollY, scrolledTo, leftSticking>>
configVars == <<platform, initialPage, hasAnchor>>
taskVars == <<task, frame>>
genVars == <<nextId, chars, returned>>
serverVars == <<serverPc, serverId>>
followsVars == <<query, endReached>>
otherVars == <<taskVars, genVars, serverVars, followsVars>>

----------------------------------------------------------------------------
\* Bounds of the model

MaxPage == 2          \* pages are 0..MaxPage
MaxOffset == 3        \* an offset k stands for the fraction k / (MaxOffset + 1) in [0, 1)
MaxScrollY == 1       \* the window scrolls over 0..MaxScrollY
MaxSelecting == 2     \* settleSelecting saturates here

Pages == 0..MaxPage
Offsets == 0..MaxOffset
ScrollOffsets == 0..MaxScrollY

----------------------------------------------------------------------------
\* Program constants and values

Null == -1                       \* null / undefined entry of scrollYs
StickThreshold == 5              \* anchorTop <= 5 means the tab bar is sticking
Phases == {"idle", "dragging", "settling"}

\* getBoundingClientRect().top of the anchor: values on both sides of the threshold
AnchorTops == {-1, 0, StickThreshold, StickThreshold + 1}

Selected(i) == [cb |-> "onPageSelected", arg |-> i]
Selecting(i) == [cb |-> "onPageSelecting", arg |-> i]

Event(op, position, offset, phase, anchorTop) ==
    [op |-> op, position |-> position, offset |-> offset, phase |-> phase,
     anchorTop |-> anchorTop, from |-> selectedPage]

NoEvent ==
    [op |-> "mount", position |-> 0, offset |-> 0, phase |-> "", anchorTop |-> 0,
     from |-> 0]

\* window.scrollTo keeps the offset inside the scrollable range of the document
Clamp(y) == IF y < 0 THEN 0 ELSE IF y > MaxScrollY THEN MaxScrollY ELSE y

----------------------------------------------------------------------------
\* Native pager (react-native-pager-view)

\* a handler that lets offset 0 through
IgnoreOffsetNever(offset) == FALSE

\* onPageScroll line 70: an offset of exactly 0 is ignored
IgnoreOffset(offset) == offset = 0

\* a backward commit that names the page before position
BackwardPageBefore(position) == position - 1

\* lines 84-85: the page committed by a settling gesture that moves backward
BackwardPage(position) == position

\* a forward commit that names position itself
ForwardPageSame(position) == position

\* lines 91-92: the page committed by a settling gesture that moves forward
ForwardPage(position) == position + 1

\* a commit that forgets to reset the direction
DirectionKept(dir) == dir

\* lines 86 and 93: lastDirection after a settling commit
DirectionAfterCommit(dir) == 0

\* a settling branch that drops the recorded direction when the offset change
\* does not agree with it
SettleGivesUp(position, offset) ==
    IF lastDirection = -1 /\ offset < lastOffset
    THEN [selectedPage |-> BackwardPage(position),
          lastDirection |-> DirectionAfterCommit(lastDirection),
          emitted |-> <<Selecting(BackwardPage(position))>>]
    ELSE IF lastDirection = 1 /\ offset > lastOffset
    THEN [selectedPage |-> ForwardPage(position),
          lastDirection |-> DirectionAfterCommit(lastDirection),
          emitted |-> <<Selecting(ForwardPage(position))>>]
    ELSE [selectedPage |-> selectedPage,
          lastDirection |-> 0,
          emitted |-> <<>>]

\* a settling branch that goes on tracking the direction when it does not commit
SettleTracks(position, offset) ==
    IF lastDirection = -1 /\ offset < lastOffset
    THEN [selectedPage |-> BackwardPage(position),
          lastDirection |-> DirectionAfterCommit(lastDirection),
          emitted |-> <<Selecting(BackwardPage(position))>>]
    ELSE IF lastDirection = 1 /\ offset > lastOffset
    THEN [selectedPage |-> ForwardPage(position),
          lastDirection |-> DirectionAfterCommit(lastDirection),
          emitted |-> <<Selecting(ForwardPage(position))>>]
    ELSE [selectedPage |-> selectedPage,
          lastDirection |-> IF offset < lastOffset THEN -1
                            ELSE IF offset > lastOffset THEN 1
                            ELSE lastDirection,
          emitted |-> <<>>]

\* lines 82-94: the settling branch of onPageScroll
Settle(position, offset) ==
    IF lastDirection = -1 /\ offset < lastOffset
    THEN [selectedPage |-> BackwardPage(position),
          lastDirection |-> DirectionAfterCommit(lastDirection),
          emitted |-> <<Selecting(BackwardPage(position))>>]
    ELSE IF lastDirection = 1 /\ offset > lastOffset
    THEN [selectedPage |-> ForwardPage(position),
          lastDirection |-> DirectionAfterCommit(lastDirection),
          emitted |-> <<Selecting(ForwardPage(position))>>]
    ELSE [selectedPage |-> selectedPage,
          lastDirection |-> lastDirection,
          emitted |-> <<>>]

\* direction tracking by the sign of the offset change, 0 when there is none
TrackSign(position, offset) ==
    [selectedPage |-> selectedPage,
     lastDirection |-> IF offset < lastOffset THEN -1
                       ELSE IF offset > lastOffset THEN 1
                       ELSE 0,
     emitted |-> <<>>]

\* direction tracking that also commits the most visible page
TrackCommits(position, offset) ==
    [selectedPage |-> position,
     lastDirection |-> IF offset < lastOffset THEN -1
                       ELSE IF offset > lastOffset THEN 1
                       ELSE lastDirection,
     emitted |-> <<>>]

\* lines 95-101: outside settling the direction of the offset change is tracked
Track(position, offset) ==
    [selectedPage |-> selectedPage,
     lastDirection |-> IF offset < lastOffset THEN -1
                       ELSE IF offset > lastOffset THEN 1
                       ELSE lastDirection,
     emitted |-> <<>>]

\* lines 67-105: the whole handler, as the values it leaves behind
onPageScroll(position, offset) ==
    IF IgnoreOffset(offset)
    THEN [selectedPage |-> selectedPage, lastOffset |-> lastOffset,
          lastDirection |-> lastDirection, emitted |-> <<>>]
    ELSE LET r == IF scrollState = "settling"
                  THEN Settle(position, offset)
                  ELSE Track(position, offset)
         IN [selectedPage |-> r.selectedPage, lastOffset |-> offset,
             lastDirection |-> r.lastDirection, emitted |-> r.emitted]

\* a page-settled handler that notifies without committing
onPageSelectedInnerKeep(position) ==
    [selectedPage |-> selectedPage, emitted |-> <<Selected(position)>>]

\* lines 59-65
onPageSelectedInner(position) ==
    [selectedPage |-> position, emitted |-> <<Selected(position)>>]

\* a phase handler that drops an event repeating the current phase
handlePageScrollStateChangedOnce(phase) ==
    [scrollState |-> phase,
     emittedPhase |-> IF phase = scrollState THEN <<>> ELSE <<phase>>]

\* lines 107-113
handlePageScrollStateChanged(phase) ==
    [scrollState |-> phase, emittedPhase |-> <<phase>>]

\* a tab-bar selection that commits the page at once
nativeOnTabBarSelectCommits(index) ==
    [selectedPage |-> index, pagerViewPage |-> <<index>>,
     emitted |-> <<Selecting(index)>>]

\* lines 115-121
nativeOnTabBarSelect(index) ==
    [selectedPage |-> selectedPage, pagerViewPage |-> <<index>>,
     emitted |-> <<Selecting(index)>>]

\* lines 55-57
nativeSetPage(index) ==
    [selectedPage |-> selectedPage, pagerViewPage |-> <<index>>, emitted |-> <<>>]

CountSelecting(seq) == Cardinality({i \in DOMAIN seq : seq[i].cb = "onPageSelecting"})
CountSelected(seq) == Cardinality({i \in DOMAIN seq : seq[i].cb = "onPageSelected"})

Saturate(n) == IF n > MaxSelecting THEN MaxSelecting ELSE n

NativeOnPageScroll(position, offset) ==
    /\ platform = "native"
    /\ LET r == onPageScroll(position, offset) IN
        /\ selectedPage' = r.selectedPage
        /\ lastOffset' = r.lastOffset
        /\ lastDirection' = r.lastDirection
        /\ emitted' = r.emitted
        /\ settleSelecting' = Saturate(settleSelecting + CountSelecting(r.emitted))
        /\ lastCommit' = IF r.emitted # <<>> THEN <<r.emitted[1].arg>> ELSE lastCommit
    /\ emittedPhase' = <<>>
    /\ pagerViewPage' = <<>>
    /\ lastEvent' = Event("onPageScroll", position, offset, "", 0)
    /\ UNCHANGED <<scrollState, webVars, configVars, otherVars>>

NativeOnPageSelected(position) ==
    /\ platform = "native"
    /\ LET r == onPageSelectedInner(position) IN
        /\ selectedPage' = r.selectedPage
        /\ emitted' = r.emitted
    /\ emittedPhase' = <<>>
    /\ pagerViewPage' = <<>>
    /\ lastEvent' = Event("onPageSelected", position, 0, "", 0)
    /\ lastCommit' = <<position>>
    /\ UNCHANGED <<lastOffset, lastDirection, scrollState, settleSelecting,
                   webVars, configVars, otherVars>>

NativeOnPageScrollStateChanged(phase) ==
    /\ platform = "native"
    /\ LET r == handlePageScrollStateChanged(phase) IN
        /\ scrollState' = r.scrollState
        /\ emittedPhase' = r.emittedPhase
        /\ settleSelecting' = IF r.scrollState # scrollState THEN 0 ELSE settleSelecting
    /\ emitted' = <<>>
    /\ pagerViewPage' = <<>>
    /\ lastEvent' = Event("onPageScrollStateChanged", 0, 0, phase, 0)
    /\ UNCHANGED <<selectedPage, lastCommit, lastOffset, lastDirection, webVars, configVars, otherVars>>

NativeOnTabBarSelect(index) ==
    /\ platform = "native"
    /\ LET r == nativeOnTabBarSelect(index) IN
        /\ selectedPage' = r.selectedPage
        /\ pagerViewPage' = r.pagerViewPage
        /\ emitted' = r.emitted
    /\ emittedPhase' = <<>>
    /\ lastEvent' = Event("onTabBarSelect", index, 0, "", 0)
    /\ UNCHANGED <<lastCommit, lastOffset, lastDirection, scrollState, settleSelecting,
                   webVars, configVars, otherVars>>

NativeSetPage(index) ==
    /\ platform = "native"
    /\ LET r == nativeSetPage(index) IN
        /\ selectedPage' = r.selectedPage
        /\ pagerViewPage' = r.pagerViewPage
        /\ emitted' = r.emitted
    /\ emittedPhase' = <<>>
    /\ lastEvent' = Event("setPage", index, 0, "", 0)
    /\ UNCHANGED <<lastCommit, lastOffset, lastDirection, scrollState, settleSelecting,
                   webVars, configVars, otherVars>>

----------------------------------------------------------------------------
\* Web pager

\* line 49
IsSticking(anchorTop) == anchorTop <= StickThreshold

\* a memory that is left alone when the tab bar is not sticking
RememberWhenSticking(anchorTop) ==
    IF IsSticking(anchorTop)
    THEN [scrollYs EXCEPT ![selectedPage] = windowScrollY]
    ELSE scrollYs

\* lines 51-55: the scroll memory after the outgoing page's entry is written
Remember(anchorTop) ==
    [scrollYs EXCEPT ![selectedPage] =
        IF IsSticking(anchorTop) THEN windowScrollY ELSE Null]

\* a restore that reads the memory as it was before the outgoing page was recorded
RestoreTargetStale(ys, index, anchorTop) ==
    IF scrollYs[index] # Null THEN scrollYs[index] ELSE windowScrollY + anchorTop

\* lines 62-67: the argument of window.scrollTo when sticking
RestoreTarget(ys, index, anchorTop) ==
    IF ys[index] # Null THEN ys[index] ELSE windowScrollY + anchorTop

\* a selection that stays silent when the page is already selected
NotifyOnChange(index) ==
    IF index = selectedPage THEN <<>> ELSE <<Selected(index), Selecting(index)>>

\* lines 56-60: the notifications made inside flushSync
Notify(index) == <<Selected(index), Selecting(index)>>

\* lines 39-71
webOnTabBarSelect(index, anchorTop) ==
    LET ys == Remember(anchorTop)
        target == RestoreTarget(ys, index, anchorTop)
    IN  [selectedPage |-> index,
         scrollYs |-> ys,
         emitted |-> Notify(index),
         scrolledTo |-> IF IsSticking(anchorTop) THEN <<target>> ELSE <<>>,
         windowScrollY |-> IF IsSticking(anchorTop) THEN Clamp(target)
                           ELSE windowScrollY]

\* a setPage that forgets the offset remembered for the page it selects
webSetPageForgets(index) ==
    [selectedPage |-> index, scrollYs |-> [scrollYs EXCEPT ![index] = Null],
     emitted |-> <<>>, scrolledTo |-> <<>>, windowScrollY |-> windowScrollY]

\* a setPage that never reaches the state
webSetPageDropped(index) ==
    [selectedPage |-> selectedPage, scrollYs |-> scrollYs, emitted |-> <<>>,
     scrolledTo |-> <<>>, windowScrollY |-> windowScrollY]

\* lines 35-37
webSetPage(index) ==
    [selectedPage |-> index, scrollYs |-> scrollYs, emitted |-> <<>>,
     scrolledTo |-> <<>>, windowScrollY |-> windowScrollY]

\* lines 51-55, as a record of how the entries came about: the outgoing page is
\* left sticking when another page is selected while sticking
LeftAfter(index, anchorTop) ==
    IF IsSticking(anchorTop) /\ index # selectedPage
    THEN leftSticking \cup {selectedPage}
    ELSE leftSticking \ {selectedPage}

\* lines 46-48: what the handler measures as anchorTop
MeasuredTops == IF hasAnchor THEN AnchorTops ELSE {0 - windowScrollY}

WebOnTabBarSelect(index, anchorTop) ==
    /\ platform = "web"
    /\ anchorTop \in MeasuredTops
    /\ LET r == webOnTabBarSelect(index, anchorTop) IN
        /\ selectedPage' = r.selectedPage
        /\ scrollYs' = r.scrollYs
        /\ emitted' = r.emitted
        /\ scrolledTo' = r.scrolledTo
        /\ windowScrollY' = r.windowScrollY
    /\ emittedPhase' = <<>>
    /\ lastEvent' = Event("onTabBarSelect", index, 0, "", anchorTop)
    /\ lastCommit' = <<index>>
    /\ UNCHANGED <<leftSticking, nativeVars, configVars, otherVars>>

\* the same call, with the history of the memory entries kept
WebOnTabBarSelectTraced(index, anchorTop) ==
    /\ platform = "web"
    /\ anchorTop \in MeasuredTops
    /\ LET r == webOnTabBarSelect(index, anchorTop) IN
        /\ selectedPage' = r.selectedPage
        /\ scrollYs' = r.scrollYs
        /\ emitted' = r.emitted
        /\ scrolledTo' = r.scrolledTo
        /\ windowScrollY' = r.windowScrollY
    /\ leftSticking' = LeftAfter(index, anchorTop)
    /\ emittedPhase' = <<>>
    /\ lastEvent' = Event("onTabBarSelect", index, 0, "", anchorTop)
    /\ lastCommit' = <<index>>
    /\ UNCHANGED <<nativeVars, configVars, otherVars>>

WebSetPage(index) ==
    /\ platform = "web"
    /\ LET r == webSetPage(index) IN
        /\ selectedPage' = r.selectedPage
        /\ scrollYs' = r.scrollYs
        /\ emitted' = r.emitted
        /\ scrolledTo' = r.scrolledTo
        /\ windowScrollY' = r.windowScrollY
    /\ emittedPhase' = <<>>
    /\ lastEvent' = Event("setPage", index, 0, "", 0)
    /\ lastCommit' = <<index>>
    /\ UNCHANGED <<leftSticking, nativeVars, configVars, otherVars>>

\* the user scrolls the window between two handler calls
WindowScroll(y) ==
    /\ platform = "web"
    /\ windowScrollY' = y
    /\ emitted' = <<>>
    /\ emittedPhase' = <<>>
    /\ scrolledTo' = <<>>
    /\ lastEvent' = Event("scroll", 0, 0, "", 0)
    /\ UNCHANGED <<selectedPage, scrollYs, leftSticking, lastCommit, nativeVars,
                   configVars, otherVars>>

----------------------------------------------------------------------------
\* Test-server mocker: StringIdGenerator and createServer

MaxCalls == 55        \* next() is called at most MaxCalls times
MaxServers == 3       \* createServer is called at most MaxServers times

\* an alphabet that also holds the ten digits
CharsWithDigits ==
    << "a", "b", "c", "d", "e", "f", "g", "h", "i", "j", "k", "l", "m",
       "n", "o", "p", "q", "r", "s", "t", "u", "v", "w", "x", "y", "z",
       "A", "B", "C", "D", "E", "F", "G", "H", "I", "J", "K", "L", "M",
       "N", "O", "P", "Q", "R", "S", "T", "U", "V", "W", "X", "Y", "Z",
       "0", "1", "2", "3", "4", "5", "6", "7", "8", "9" >>

\* line 24: the default alphabet
DefaultChars ==
    << "a", "b", "c", "d", "e", "f", "g", "h", "i", "j", "k", "l", "m",
       "n", "o", "p", "q", "r", "s", "t", "u", "v", "w", "x", "y", "z",
       "A", "B", "C", "D", "E", "F", "G", "H", "I", "J", "K", "L", "M",
       "N", "O", "P", "Q", "R", "S", "T", "U", "V", "W", "X", "Y", "Z" >>

\* lines 23-25: alphabets a generator is constructed with
Alphabets == {DefaultChars, <<"a", "b">>, <<"x", "y", "z">>}

\* a render that writes the digits in storage order
RenderStored(id) == [i \in 1..Len(id) |-> chars[id[i] + 1]]

\* a render that appends where the code prepends
Push(r, c) == Append(r, c)

\* line 30: r.unshift(c)
Unshift(r, c) == <<c>> \o r

\* lines 28-31: the loop over the digits, least significant first
RECURSIVE RenderFrom(_, _, _)
RenderFrom(id, i, r) ==
    IF i > Len(id) THEN r
    ELSE RenderFrom(id, i + 1, Unshift(r, chars[id[i] + 1]))

\* lines 28-33: the string of a digit sequence (join of r)
Render(id) == RenderFrom(id, 1, <<>>)

RECURSIVE IncrementFromNoPush(_, _)
IncrementFromNoPush(id, i) ==
    IF i > Len(id) THEN id
    ELSE LET val == id[i] + 1 IN
         IF val >= Len(chars)
         THEN IncrementFromNoPush([id EXCEPT ![i] = 0], i + 1)
         ELSE [id EXCEPT ![i] = val]

\* an increment that forgets to append a digit when the carry runs out
incrementNoPush(id) == IncrementFromNoPush(id, 1)

\* a carry loop that starts the new digit at 1, as positional notation would
RECURSIVE IncrementFromPushOne(_, _)
IncrementFromPushOne(id, i) ==
    IF i > Len(id) THEN Append(id, 1)
    ELSE LET val == id[i] + 1 IN
         IF val >= Len(chars)
         THEN IncrementFromPushOne([id EXCEPT ![i] = 0], i + 1)
         ELSE [id EXCEPT ![i] = val]

\* lines 37-45: the carry loop from digit i on (1-based), then the push
RECURSIVE IncrementFrom(_, _)
IncrementFrom(id, i) ==
    IF i > Len(id) THEN Append(id, 0)
    ELSE LET val == id[i] + 1 IN
         IF val >= Len(chars)
         THEN IncrementFrom([id EXCEPT ![i] = 0], i + 1)
         ELSE [id EXCEPT ![i] = val]

\* lines 36-46: _increment
increment(id) == IncrementFrom(id, 1)

\* a next() that increments before it renders
nextAfterIncrement == [out |-> Render(increment(nextId)), nextId |-> increment(nextId)]

\* a next() that returns the current id without moving on
nextPeek == [out |-> Render(nextId), nextId |-> nextId]

\* lines 27-34: next(), as the string it returns and the counter it leaves
next == [out |-> Render(nextId), nextId |-> increment(nextId)]

pagerVars == <<platform, initialPage, selectedPage, lastOffset, lastDirection,
               scrollState, pagerViewPage, scrollYs, windowScrollY, hasAnchor,
               emitted, emittedPhase, scrolledTo, leftSticking, lastEvent,
               settleSelecting, lastCommit>>

\* one call of next() on the generator
GenNext ==
    /\ Len(returned) < MaxCalls
    /\ LET r == next IN
        /\ returned' = Append(returned, r.out)
        /\ nextId' = r.nextId
    /\ UNCHANGED <<chars, pagerVars, taskVars, serverVars, followsVars>>

\* lines 22-25 and 55: a fresh generator over one of the given alphabets
GenInit(alphabets) ==
    /\ chars \in alphabets
    /\ nextId = <<0>>
    /\ returned = <<>>

Servers == 1..MaxServers

\* lines 85 and 90: the database schema names of a server
SchemaNames(id) == {<<"pds_">> \o id, <<"bsky_">> \o id}

\* lines 57-67: the call runs up to its first await
CreateServer(c) ==
    /\ serverPc[c] = "idle"
    /\ serverPc' = [serverPc EXCEPT ![c] = "port2"]
    /\ UNCHANGED <<serverId, genVars, pagerVars, taskVars, followsVars>>

\* lines 67-68: getPort(port + 1) resolved, the call awaits getPort(port2 + 1)
Port2Found(c) ==
    /\ serverPc[c] = "port2"
    /\ serverPc' = [serverPc EXCEPT ![c] = "port3"]
    /\ UNCHANGED <<serverId, genVars, pagerVars, taskVars, followsVars>>

\* lines 68-95: getPort(port2 + 1) resolved; the call takes its id and awaits
\* TestNetwork.create
TakeId(c) ==
    /\ serverPc[c] = "port3"
    /\ LET r == next IN
        /\ serverId' = [serverId EXCEPT ![c] = <<r.out>>]
        /\ returned' = Append(returned, r.out)
        /\ nextId' = r.nextId
    /\ serverPc' = [serverPc EXCEPT ![c] = "create"]
    /\ UNCHANGED <<chars, pagerVars, taskVars, followsVars>>

\* lines 96-110: TestNetwork.create resolved, the call returns its TestPDS
Created(c) ==
    /\ serverPc[c] = "create"
    /\ serverPc' = [serverPc EXCEPT ![c] = "done"]
    /\ UNCHANGED <<serverId, genVars, pagerVars, taskVars, followsVars>>

\* lines 445-452 and 81: getPort throws, or TestNetwork.create rejects
ServerFails(c) ==
    /\ serverPc[c] \in {"port2", "port3", "create"}
    /\ serverPc' = [serverPc EXCEPT ![c] = "failed"]
    /\ UNCHANGED <<serverId, genVars, pagerVars, taskVars, followsVars>>

ServersInit ==
    /\ serverPc = [c \in Servers |-> "idle"]
    /\ serverId = [c \in Servers |-> <<>>]

----------------------------------------------------------------------------
\* Web pager, statement by statement: onTabBarSelect as the browser task it runs
\* in. The browser paints only between tasks; `task.inTask` says that the
\* handler's synchronous code is still running.

IdleTask == [pc |-> "idle", index |-> 0, anchorTop |-> 0, scrollY |-> 0, inTask |-> FALSE]

NoFrame == [selectedPage |-> 0, windowScrollY |-> 0, pending |-> FALSE]

TaskInit ==
    /\ task = IdleTask
    /\ frame = NoFrame

\* a handler that leaves the scroll adjustment to a later task
AfterCommitYields(t) ==
    IF IsSticking(t.anchorTop) THEN [t EXCEPT !.pc = "scroll", !.inTask = FALSE]
    ELSE IdleTask

\* lines 60-61: after flushSync returns the handler goes on, in the same task, to
\* the scroll adjustment when sticking, and returns otherwise
AfterCommit(t) ==
    IF IsSticking(t.anchorTop) THEN [t EXCEPT !.pc = "scroll"] ELSE IdleTask

\* lines 62-67 with the handler's locals
TaskTarget(t) ==
    IF scrollYs[t.index] # Null THEN scrollYs[t.index] ELSE t.scrollY + t.anchorTop

\* lines 39-55: measure, decide isSticking, write the outgoing page's memory
TaskSelectBegin(index, anchorTop) ==
    /\ platform = "web"
    /\ task.pc = "idle"
    /\ anchorTop \in MeasuredTops
    /\ scrollYs' = Remember(anchorTop)
    /\ task' = [pc |-> "commit", index |-> index, anchorTop |-> anchorTop,
                scrollY |-> windowScrollY, inTask |-> TRUE]
    /\ emitted' = <<>>
    /\ emittedPhase' = <<>>
    /\ scrolledTo' = <<>>
    /\ lastEvent' = Event("onTabBarSelect", index, 0, "", anchorTop)
    /\ UNCHANGED <<selectedPage, windowScrollY, leftSticking, lastCommit, frame, nativeVars,
                   configVars, genVars, serverVars, followsVars>>

\* lines 56-60: flushSync commits selectedPage and makes the notifications
TaskCommit ==
    /\ task.pc = "commit"
    /\ selectedPage' = task.index
    /\ emitted' = Notify(task.index)
    /\ lastCommit' = <<task.index>>
    /\ task' = AfterCommit(task)
    /\ UNCHANGED <<scrollYs, windowScrollY, emittedPhase, scrolledTo, lastEvent,
                   leftSticking, frame, nativeVars, configVars, genVars, serverVars, followsVars>>

\* lines 61-68: the scroll adjustment
TaskScroll ==
    /\ task.pc = "scroll"
    /\ scrolledTo' = <<TaskTarget(task)>>
    /\ windowScrollY' = Clamp(TaskTarget(task))
    /\ task' = IdleTask
    /\ UNCHANGED <<selectedPage, scrollYs, emitted, emittedPhase, lastEvent,
                   leftSticking, lastCommit, frame, nativeVars, configVars, genVars, serverVars, followsVars>>

\* lines 35-37
TaskSetPage(index) ==
    /\ platform = "web"
    /\ task.pc = "idle"
    /\ selectedPage' = webSetPage(index).selectedPage
    /\ emitted' = <<>>
    /\ emittedPhase' = <<>>
    /\ scrolledTo' = <<>>
    /\ lastEvent' = Event("setPage", index, 0, "", 0)
    /\ lastCommit' = <<index>>
    /\ UNCHANGED <<scrollYs, windowScrollY, leftSticking, task, frame, nativeVars,
                   configVars,
                   genVars, serverVars, followsVars>>

\* the user scrolls the window, in a task of its own
TaskWindowScroll(y) ==
    /\ platform = "web"
    /\ ~task.inTask
    /\ windowScrollY' = y
    /\ UNCHANGED <<selectedPage, scrollYs, emitted, emittedPhase, scrolledTo,
                   leftSticking, lastEvent, lastCommit, task, frame, nativeVars, configVars,
                   genVars, serverVars, followsVars>>

\* the browser paints a frame, between two tasks; `pending` says that the frame
\* shows a committed page whose scroll adjustment has not been made yet
Paint ==
    /\ platform = "web"
    /\ ~task.inTask
    /\ frame' = [selectedPage |-> selectedPage, windowScrollY |-> windowScrollY,
                 pending |-> task.pc = "scroll"]
    /\ UNCHANGED <<pagerVars, task, genVars, serverVars, followsVars>>

----------------------------------------------------------------------------
\* ProfileFollows: the list's onEndReached callback over the paginated query

MaxEndReached == 2    \* the list calls onEndReached at most MaxEndReached times

EndReachedCalls == 1..MaxEndReached

\* lines 21-31: the fields of the query result that onEndReached reads
QueryStates == [isFetching : BOOLEAN, hasNextPage : BOOLEAN, isError : BOOLEAN]

\* an onEndReached call the list has not made yet
NotCalled ==
    [pc |-> "idle", saw |-> [isFetching |-> FALSE, hasNextPage |-> FALSE, isError |-> FALSE],
     fetchNextPage |-> 0, logged |-> <<>>, outcome |-> "pending",
     settled |-> "no"]

\* line 50: the call goes on only when this holds
MayFetch(q) == ~(q.isFetching \/ ~q.hasNextPage \/ q.isError)

\* lines 49-52: the call up to its await; `saw` keeps the query result the
\* callback closed over, `settled` how the promise of fetchNextPage() ended
onEndReached(q) ==
    IF MayFetch(q)
    THEN [pc |-> "awaiting", saw |-> q, fetchNextPage |-> 1, logged |-> <<>>,
          outcome |-> "pending", settled |-> "no"]
    ELSE [pc |-> "returned", saw |-> q, fetchNextPage |-> 0, logged |-> <<>>,
          outcome |-> "fulfilled", settled |-> "no"]

\* a call without the try / catch: the rejection becomes the call's own
rejectedUncaught(call) ==
    [call EXCEPT !.pc = "returned", !.outcome = "rejected"]

\* lines 53-55: the catch block logs the error and the call returns normally
rejectedCaught(call) ==
    [call EXCEPT !.pc = "returned",
                 !.logged = Append(@, "Failed to load more follows"),
                 !.outcome = "fulfilled"]

\* lines 52 and 56: fetchNextPage() resolved, the call returns
resolved(call) ==
    [call EXCEPT !.pc = "returned", !.outcome = "fulfilled"]

\* line 90: the list calls onEndReached of the current render
OnEndReached(c) ==
    /\ endReached[c].pc = "idle"
    /\ endReached' = [endReached EXCEPT ![c] = onEndReached(query)]
    /\ UNCHANGED <<query, pagerVars, taskVars, genVars, serverVars>>

\* line 52: the promise of fetchNextPage() is fulfilled
FetchResolves(c) ==
    /\ endReached[c].pc = "awaiting"
    /\ endReached' = [endReached EXCEPT
                         ![c] = [resolved(@) EXCEPT !.settled = "fulfilled"]]
    /\ UNCHANGED <<query, pagerVars, taskVars, genVars, serverVars>>

\* lines 52-55: the promise of fetchNextPage() is rejected
FetchRejects(c) ==
    /\ endReached[c].pc = "awaiting"
    /\ endReached' = [endReached EXCEPT
                         ![c] = [rejectedCaught(@) EXCEPT !.settled = "rejected"]]
    /\ UNCHANGED <<query, pagerVars, taskVars, genVars, serverVars>>

\* lines 21-31: the query result changes and the component renders again
QueryChanges(q) ==
    /\ q # query
    /\ query' = q
    /\ UNCHANGED <<endReached, pagerVars, taskVars, genVars, serverVars>>

\* lines 14-31: the component as mounted, with the query given one of the results
FollowsInit(queries) ==
    /\ query \in queries
    /\ endReached = [c \in EndReachedCalls |-> NotCalled]

\* no ProfileFollows screen is mounted
NoFollows == FollowsInit({NotCalled.saw})

----------------------------------------------------------------------------
\* Specification

\* a pager that takes its first selected page from the initialPage prop on both
\* platforms
PagerInitFromProp(platforms) ==
    /\ platform \in platforms
    /\ initialPage \in Pages
    /\ hasAnchor \in (IF platform = "web" THEN BOOLEAN ELSE {FALSE})
    /\ selectedPage = initialPage
    /\ lastOffset = 0
    /\ lastDirection = 0
    /\ scrollState = ""
    /\ pagerViewPage = <<>>
    /\ scrollYs = [p \in Pages |-> Null]
    /\ windowScrollY = 0
    /\ emitted = <<>>
    /\ emittedPhase = <<>>
    /\ scrolledTo = <<>>
    /\ leftSticking = {}
    /\ lastEvent = NoEvent
    /\ settleSelecting = 0
    /\ lastCommit = <<>>

\* the pager as mounted, for a build of one of the given platforms
PagerInit(platforms) ==
    /\ platform \in platforms
    /\ initialPage \in Pages
    /\ hasAnchor \in (IF platform = "web" THEN BOOLEAN ELSE {FALSE})
    /\ selectedPage = (IF platform = "native" THEN 0 ELSE initialPage)
    /\ lastOffset = 0
    /\ lastDirection = 0
    /\ scrollState = ""
    /\ pagerViewPage = <<>>
    /\ scrollYs = [p \in Pages |-> Null]
    /\ windowScrollY = 0
    /\ emitted = <<>>
    /\ emittedPhase = <<>>
    /\ scrolledTo = <<>>
    /\ leftSticking = {}
    /\ lastEvent = NoEvent
    /\ settleSelecting = 0
    /\ lastCommit = <<>>

Init ==
    /\ PagerInit({"native", "web"})
    /\ TaskInit
    /\ GenInit({DefaultChars})
    /\ ServersInit
    /\ NoFollows

Next ==
    \/ \E position \in Pages, offset \in Offsets : NativeOnPageScroll(position, offset)
    \/ \E position \in Pages : NativeOnPageSelected(position)
    \/ \E phase \in Phases : NativeOnPageScrollStateChanged(phase)
    \/ \E index \in Pages : NativeOnTabBarSelect(index)
    \/ \E index \in Pages : NativeSetPage(index)
    \/ \E index \in Pages, anchorTop \in AnchorTops \cup {0 - y : y \in ScrollOffsets} :
          WebOnTabBarSelect(index, anchorTop)
    \/ \E index \in Pages : WebSetPage(index)
    \/ \E y \in ScrollOffsets : WindowScroll(y)

Spec == Init /\ [][Next]_vars

\* the web pager at statement granularity, with the browser's paints
InitTask ==
    /\ PagerInit({"web"})
    /\ initialPage = 0
    /\ TaskInit
    /\ GenInit({DefaultChars})
    /\ ServersInit
    /\ NoFollows

NextTask ==
    \/ \E index \in Pages, anchorTop \in AnchorTops \cup {0 - y : y \in ScrollOffsets} :
          TaskSelectBegin(index, anchorTop)
    \/ TaskCommit
    \/ TaskScroll
    \/ \E index \in Pages : TaskSetPage(index)
    \/ \E y \in ScrollOffsets : TaskWindowScroll(y)
    \/ Paint

SpecTask == InitTask /\ [][NextTask]_vars

\* the web pager mounted over an anchor, with the history of its scroll memory
InitMemory ==
    /\ PagerInit({"web"})
    /\ initialPage = 0
    /\ hasAnchor
    /\ TaskInit
    /\ GenInit({DefaultChars})
    /\ ServersInit
    /\ NoFollows

NextMemory ==
    \/ \E index \in Pages, anchorTop \in AnchorTops : WebOnTabBarSelectTraced(index, anchorTop)
    \/ \E index \in Pages : WebSetPage(index)
    \/ \E y \in ScrollOffsets : WindowScroll(y)

SpecMemory == InitMemory /\ [][NextMemory]_vars

\* no pager is mounted in the test-server process
NoPager ==
    /\ PagerInit({"none"})
    /\ initialPage = 0

\* one StringIdGenerator and its callers
InitGen ==
    /\ NoPager
    /\ TaskInit
    /\ GenInit(Alphabets)
    /\ ServersInit
    /\ NoFollows

NextGen == GenNext

SpecGen == InitGen /\ [][NextGen]_vars

\* createServer calls sharing the module's generator `ids`
InitServers ==
    /\ NoPager
    /\ TaskInit
    /\ GenInit({DefaultChars})
    /\ ServersInit
    /\ NoFollows

NextServers ==
    \/ \E c \in Servers : CreateServer(c)
    \/ \E c \in Servers : Port2Found(c)
    \/ \E c \in Servers : TakeId(c)
    \/ \E c \in Servers : Created(c)
    \/ \E c \in Servers : ServerFails(c)

SpecServers == InitServers /\ [][NextServers]_vars

\* the ProfileFollows screen and the calls of its onEndReached
InitFollows ==
    /\ NoPager
    /\ TaskInit
    /\ GenInit({DefaultChars})
    /\ ServersInit
    /\ FollowsInit(QueryStates)

NextFollows ==
    \/ \E c \in EndReachedCalls : OnEndReached(c)
    \/ \E c \in EndReachedCalls : FetchResolves(c)
    \/ \E c \in EndReachedCalls : FetchRejects(c)
    \/ \E q \in QueryStates : QueryChanges(q)

SpecFollows == InitFollows /\ [][NextFollows]_vars

----------------------------------------------------------------------------
\* Properties

IsScroll(e) == e.op = "onPageScroll"

\* the offset change of event e agrees with the direction recorded before it
Consistent(e) ==
    \/ lastDirection = -1 /\ e.offset < lastOffset
    \/ lastDirection = 1 /\ e.offset > lastOffset

\* C1: on native, an onScroll with offset exactly 0 changes none of selectedPage,
\* lastOffset, lastDirection and scrollState and emits neither onPageSelecting
\* nor onPageSelected.
C1_OffsetZeroNoOp ==
    [][(platform = "native" /\ IsScroll(lastEvent') /\ lastEvent'.offset = 0)
          => /\ UNCHANGED <<selectedPage, lastOffset, lastDirection, scrollState>>
             /\ emitted' = <<>>]_vars

\* an offset-0 onScroll has run in a state where a recorded offset and direction
\* were there to lose
C1_Witness ==
    /\ platform = "native"
    /\ IsScroll(lastEvent) /\ lastEvent.offset = 0
    /\ lastOffset > 0 /\ lastDirection = 1 /\ scrollState = "settling"

\* C2: on native, in phase settling with lastDirection = 1, an onScroll(position,
\* offset) with a non-zero offset above lastOffset emits exactly one
\* onPageSelecting(position + 1), sets selectedPage to position + 1 and resets
\* lastDirection to 0.
C2_ForwardCommit ==
    [][(/\ platform = "native" /\ IsScroll(lastEvent')
        /\ scrollState = "settling" /\ lastDirection = 1
        /\ lastEvent'.offset # 0 /\ lastEvent'.offset > lastOffset)
          => /\ emitted' = <<[cb |-> "onPageSelecting", arg |-> lastEvent'.position + 1]>>
             /\ selectedPage' = lastEvent'.position + 1
             /\ lastDirection' = 0]_vars

\* a forward settling commit has just happened, away from the page selected before
C2_Witness ==
    /\ platform = "native" /\ IsScroll(lastEvent) /\ scrollState = "settling"
    /\ emitted = <<[cb |-> "onPageSelecting", arg |-> lastEvent.position + 1]>>
    /\ selectedPage = lastEvent.position + 1
    /\ lastEvent.from # selectedPage

\* C3: on native, in phase settling with lastDirection = -1, an onScroll(position,
\* offset) with a non-zero offset below lastOffset emits exactly one
\* onPageSelecting(position), sets selectedPage to position (not position - 1)
\* and resets lastDirection to 0.
C3_BackwardCommit ==
    [][(/\ platform = "native" /\ IsScroll(lastEvent')
        /\ scrollState = "settling" /\ lastDirection = -1
        /\ lastEvent'.offset # 0 /\ lastEvent'.offset < lastOffset)
          => /\ emitted' = <<[cb |-> "onPageSelecting", arg |-> lastEvent'.position]>>
             /\ selectedPage' = lastEvent'.position
             /\ lastDirection' = 0]_vars

\* a backward settling commit has just happened, away from the page selected before
C3_Witness ==
    /\ platform = "native" /\ IsScroll(lastEvent) /\ scrollState = "settling"
    /\ emitted = <<[cb |-> "onPageSelecting", arg |-> lastEvent.position]>>
    /\ selectedPage = lastEvent.position
    /\ lastEvent.from = selectedPage + 1

\* C4: on native, onScroll emits at most one onPageSelecting between scrollState
\* becoming settling and its next change of value; while the phase stays
\* settling a lastDirection of 0 stays 0, and a commit leaves it 0.
C4_OneSelectingPerSettle ==
    /\ [](scrollState = "settling" => settleSelecting <= 1)
    /\ [][(scrollState = "settling" /\ scrollState' = "settling")
            => /\ (lastDirection = 0 => lastDirection' = 0)
               /\ ((IsScroll(lastEvent') /\ emitted' # <<>>) => lastDirection' = 0)]_vars

\* after the one commit of a settle phase a further non-zero onScroll has run and
\* emitted nothing
C4_Witness ==
    /\ platform = "native" /\ scrollState = "settling" /\ settleSelecting = 1
    /\ IsScroll(lastEvent) /\ lastEvent.offset # 0 /\ emitted = <<>>

\* C5: on native, a page-settled event for page k sets selectedPage to k and
\* emits exactly one onPageSelected(k), whatever the state it arrives in.
C5_SettledCommits ==
    (platform = "native" /\ lastEvent.op = "onPageSelected")
        => /\ selectedPage = lastEvent.position
           /\ emitted = <<[cb |-> "onPageSelected", arg |-> lastEvent.position]>>

\* a page-settled event has overridden the page a settling commit of the same
\* settle phase had selected, with a direction still recorded
C5_Witness ==
    /\ platform = "native" /\ lastEvent.op = "onPageSelected"
    /\ scrollState = "settling" /\ settleSelecting = 1
    /\ lastEvent.from # lastEvent.position
    /\ selectedPage = lastEvent.position

\* C6 (as claimed): once setPage(k) has been applied, selectedPage = k and exactly
\* one onPageSelected(k) has been emitted, on native and on web.
C6_SetPageCommitsAndNotifies ==
    lastEvent.op = "setPage"
        => /\ selectedPage = lastEvent.position
           /\ emitted = <<[cb |-> "onPageSelected", arg |-> lastEvent.position]>>

\* what tab-bar onSelect(index) would leave behind, compared with the next state
SameAsOnSelect(index) ==
    IF platform = "native"
    THEN LET r == nativeOnTabBarSelect(index) IN
            /\ selectedPage' = r.selectedPage
            /\ emitted' = r.emitted
            /\ pagerViewPage' = r.pagerViewPage
    ELSE \E anchorTop \in MeasuredTops :
            LET r == webOnTabBarSelect(index, anchorTop) IN
                /\ selectedPage' = r.selectedPage
                /\ emitted' = r.emitted
                /\ scrollYs' = r.scrollYs
                /\ scrolledTo' = r.scrolledTo
                /\ windowScrollY' = r.windowScrollY

\* C7 (as claimed): setPage(index) ends in the state, and with the notifications,
\* that tab-bar onSelect(index) started from the same state would end with.
C7_SetPageLikeOnSelect ==
    [][lastEvent'.op = "setPage" => SameAsOnSelect(lastEvent'.position)]_vars

\* the step that just ran is a commit: a settling commit of onScroll, a
\* page-settled event, or on web a setPage / tab-bar onSelect call
CommitStep ==
    \/ /\ platform = "native" /\ IsScroll(lastEvent')
       /\ lastEvent'.offset # 0 /\ scrollState = "settling" /\ Consistent(lastEvent')
    \/ platform = "native" /\ lastEvent'.op = "onPageSelected"
    \/ platform = "web" /\ lastEvent'.op \in {"setPage", "onTabBarSelect"}

\* C8: every step that changes selectedPage is a commit step; an onScroll outside
\* settling and a phase-change event never change it.
C8_OnlyCommitsChangeSelectedPage ==
    [][/\ (selectedPage' # selectedPage => CommitStep)
       /\ ((IsScroll(lastEvent') /\ scrollState # "settling")
              => selectedPage' = selectedPage)
       /\ (lastEvent'.op = "onPageScrollStateChanged"
              => selectedPage' = selectedPage)]_vars

\* a non-zero onScroll has run while dragging and has recorded a direction, for a
\* position whose neighbourhood does not hold the selected page
C8_Witness ==
    /\ platform = "native" /\ IsScroll(lastEvent) /\ lastEvent.offset # 0
    /\ scrollState = "dragging" /\ lastDirection # 0
    /\ selectedPage # lastEvent.position
    /\ selectedPage # lastEvent.position + 1

\* C9: on web, when tab-bar onSelect(index) returns, selectedPage = index and the
\* notifications made are exactly onPageSelected(index) then
\* onPageSelecting(index), for every index (the selected page included),
\* sticking or not.
C9_WebOnSelectCommits ==
    (platform = "web" /\ lastEvent.op = "onTabBarSelect")
        => /\ selectedPage = lastEvent.position
           /\ emitted = <<[cb |-> "onPageSelected", arg |-> lastEvent.position],
                          [cb |-> "onPageSelecting", arg |-> lastEvent.position]>>

\* the selected page has been selected again while the tab bar was not sticking
C9_Witness ==
    /\ platform = "web" /\ lastEvent.op = "onTabBarSelect"
    /\ lastEvent.from = lastEvent.position
    /\ lastEvent.anchorTop > 5
    /\ Len(emitted) = 2

\* C10: on web, an onSelect(index) with anchorTop <= 5 (anchorTop being -scrollY
\* when there is no anchor) records the window offset for the page selected at
\* the call and nothing else, then scrolls once: to the offset the memory then
\* holds for index if it is not null, otherwise to scrollY + anchorTop.
C10_StickingRecordsAndRestores ==
    [][(platform = "web" /\ lastEvent'.op = "onTabBarSelect")
          => /\ (~hasAnchor => lastEvent'.anchorTop = 0 - windowScrollY)
             /\ (lastEvent'.anchorTop <= 5
                    => /\ scrollYs' = [scrollYs EXCEPT ![selectedPage] = windowScrollY]
                       /\ scrolledTo' =
                            <<IF scrollYs'[lastEvent'.position] # Null
                              THEN scrollYs'[lastEvent'.position]
                              ELSE windowScrollY + lastEvent'.anchorTop>>)]_vars

\* while sticking with the anchor exactly at the top, a page other than the
\* outgoing one has been selected and the window has been scrolled to the offset
\* remembered for it, which is not the offset the window was at
C10_Witness ==
    /\ platform = "web" /\ lastEvent.op = "onTabBarSelect"
    /\ hasAnchor /\ lastEvent.anchorTop = 0
    /\ lastEvent.from # lastEvent.position
    /\ scrollYs[lastEvent.position] # Null
    /\ scrolledTo = <<scrollYs[lastEvent.position]>>
    /\ scrollYs[lastEvent.from] # scrollYs[lastEvent.position]

\* C11: on web, an onSelect with anchorTop > 5 sets the memory entry of the page
\* selected at the call to null, leaves the other entries and the window alone
\* and calls no scrollTo; a later sticking return to a page whose entry is null
\* scrolls to scrollY + anchorTop, not to a remembered offset.
C11_NotStickingErases ==
    [][(platform = "web" /\ lastEvent'.op = "onTabBarSelect")
          => /\ (lastEvent'.anchorTop > 5
                    => /\ scrollYs' = [scrollYs EXCEPT ![selectedPage] = Null]
                       /\ scrolledTo' = <<>>
                       /\ windowScrollY' = windowScrollY)
             /\ ((/\ lastEvent'.anchorTop <= 5
                  /\ lastEvent'.position # selectedPage
                  /\ scrollYs[lastEvent'.position] = Null)
                    => scrolledTo' = <<windowScrollY + lastEvent'.anchorTop>>)]_vars

\* with the window scrolled down and an offset remembered for another page, a
\* page has been left while not sticking: its entry is null and nothing scrolled
C11_Witness ==
    /\ platform = "web" /\ lastEvent.op = "onTabBarSelect"
    /\ lastEvent.anchorTop > 5
    /\ lastEvent.from # lastEvent.position
    /\ scrollYs[lastEvent.from] = Null
    /\ scrollYs[lastEvent.position] # Null
    /\ scrolledTo = <<>>
    /\ windowScrollY > 0

\* C12: on web, no frame is painted that shows the page committed by a sticking
\* onSelect while the scroll adjustment of that onSelect is still to be made.
C12_NoUnadjustedFrame == frame.pending = FALSE

\* a frame has been painted after a sticking onSelect that changed the page and
\* moved the window
C12_Witness ==
    /\ platform = "web" /\ task.pc = "idle"
    /\ lastEvent.op = "onTabBarSelect" /\ lastEvent.anchorTop <= 5
    /\ lastEvent.from # lastEvent.position
    /\ scrolledTo # <<>>
    /\ frame.selectedPage = lastEvent.position
    /\ frame.windowScrollY = Clamp(scrolledTo[1])
    /\ scrollYs[lastEvent.from] # frame.windowScrollY

\* C13: the strings one generator has returned are pairwise distinct.
C13_NeverRepeats ==
    \A i, j \in DOMAIN returned : i # j => returned[i] # returned[j]

\* over the alphabet "ab" the generator has carried twice: its seventh string
\* has three characters
C13_Witness ==
    /\ chars = <<"a", "b">>
    /\ Len(returned) >= 7
    /\ Len(returned[7]) = 3

\* C14 (as claimed): the first 62 strings of the default generator have one
\* character and the 63rd is the first with two.
C14_SixtyTwoOneCharStrings ==
    chars = DefaultChars
        => \A i \in DOMAIN returned :
              /\ (i <= 62 => Len(returned[i]) = 1)
              /\ (i = 63 => Len(returned[i]) = 2)

\* C14 (amended): the default alphabet has 52 characters; the first 52 strings
\* have one character and the 53rd is the first with two.
C14_FiftyTwoOneCharStrings ==
    chars = DefaultChars
        => /\ Len(chars) = 52
           /\ \A i \in DOMAIN returned :
                 /\ (i <= 52 => Len(returned[i]) = 1)
                 /\ (i = 53 => Len(returned[i]) = 2)

\* the default generator has been called 53 times
C14_Witness ==
    /\ chars = DefaultChars
    /\ Len(returned) >= 53
    /\ Len(returned[52]) = 1
    /\ Len(returned[53]) = 2

\* the first, 52nd, 53rd and 54th string of the default generator, as far as
\* they have been returned
StartsWith(first, lastOne, firstTwo, secondTwo) ==
    chars = DefaultChars
        => /\ (Len(returned) >= 1 => returned[1] = first)
           /\ (Len(returned) >= 52 => returned[52] = lastOne)
           /\ (Len(returned) >= 53 => returned[53] = firstTwo)
           /\ (Len(returned) >= 54 => returned[54] = secondTwo)

\* C15 (as claimed): the default generator returns "a" first, "Z" as its last
\* one-character string, then "aa", then "ba".
C15_ThenBA == StartsWith(<<"a">>, <<"Z">>, <<"a", "a">>, <<"b", "a">>)

\* C15 (amended): the default generator returns "a" first, "Z" as its last
\* one-character string, then "aa", then "ab".
C15_ThenAB == StartsWith(<<"a">>, <<"Z">>, <<"a", "a">>, <<"a", "b">>)

\* the default generator has returned the string after "aa"
C15_Witness ==
    /\ chars = DefaultChars
    /\ Len(returned) >= 54
    /\ Len(returned[54]) = 2
    /\ returned[54][1] # returned[54][2]

\* String.indexOf over the alphabet: the first index holding c
IndexOf(c) ==
    CHOOSE i \in 0..(Len(chars) - 1) :
        /\ chars[i + 1] = c
        /\ \A j \in 0..(i - 1) : chars[j + 1] # c

Reverse(seq) == [i \in 1..Len(seq) |-> seq[Len(seq) + 1 - i]]

\* a returned string read back: characters to indices, then least significant first
Parse(str) == Reverse([i \in 1..Len(str) |-> IndexOf(str[i])])

\* C16: the string a call of next() returns, read back, is the digit sequence
\* the counter held before that call's increment.
C16_RoundTrip ==
    [][Len(returned') = Len(returned) + 1
          => Parse(returned'[Len(returned')]) = nextId]_vars

\* over the alphabet "xyz" the fifth string, "xy", reads back as the digits 1, 0
C16_Witness ==
    /\ chars = <<"x", "y", "z">>
    /\ Len(returned) >= 5
    /\ returned[5] = <<"x", "y">>
    /\ Parse(returned[5]) = <<1, 0>>

\* C17: no two createServer calls hold the same id, and no two share a schema
\* name, at any point of any interleaving of their steps.
C17_ServersDistinct ==
    \A c, d \in Servers :
        (c # d /\ serverId[c] # <<>> /\ serverId[d] # <<>>)
            => /\ serverId[c][1] # serverId[d][1]
               /\ SchemaNames(serverId[c][1]) \cap SchemaNames(serverId[d][1]) = {}

\* three calls have overtaken one another: the last call took the first id and
\* the first call the last
C17_Witness ==
    /\ \A c \in 1..3 : serverPc[c] \in {"create", "done"}
    /\ serverId[3] = << <<"a">> >>
    /\ serverId[2] = << <<"b">> >>
    /\ serverId[1] = << <<"c">> >>

\* C18: once a commit has been applied, selectedPage is the page of the most
\* recent commit.
C18_LastWriteWins ==
    lastCommit # <<>> => selectedPage = lastCommit[1]

\* on web a setPage has been applied over the page a tab-bar selection had
\* committed while sticking
C18_Witness ==
    /\ platform = "web" /\ lastEvent.op = "setPage"
    /\ lastEvent.from # lastEvent.position
    /\ scrollYs[lastEvent.from] = Null
    /\ \E p \in Pages : scrollYs[p] # Null
    /\ selectedPage = lastEvent.position

\* C19: on native every phase can be delivered in every state; a phase event
\* sets scrollState to its phase, is forwarded once to onPageScrollStateChanged,
\* and changes nothing else; one repeating the current phase changes no state.
C19_PhaseEventsTolerated ==
    /\ [](platform = "native"
            => \A phase \in Phases : ENABLED NativeOnPageScrollStateChanged(phase))
    /\ [][(platform = "native" /\ lastEvent'.op = "onPageScrollStateChanged")
            => /\ scrollState' = lastEvent'.phase
               /\ emittedPhase' = <<lastEvent'.phase>>
               /\ emitted' = <<>>
               /\ UNCHANGED <<selectedPage, lastOffset, lastDirection>>
               /\ (lastEvent'.phase = scrollState
                      => UNCHANGED <<selectedPage, lastOffset, lastDirection,
                                     scrollState>>)]_vars

\* settling has been delivered again in a settle phase that had committed
C19_Witness ==
    /\ platform = "native" /\ lastEvent.op = "onPageScrollStateChanged"
    /\ lastEvent.phase = "settling" /\ scrollState = "settling"
    /\ settleSelecting = 1
    /\ emittedPhase = <<"settling">>

\* C20: on native, a non-zero onScroll outside settling sets lastDirection to -1
\* when offset < lastOffset, to 1 when offset > lastOffset, leaves it when they
\* are equal, stores offset as lastOffset and emits nothing.
C20_TracksDirection ==
    [][(/\ platform = "native" /\ IsScroll(lastEvent')
        /\ lastEvent'.offset # 0 /\ scrollState # "settling")
          => /\ lastDirection' = (IF lastEvent'.offset < lastOffset THEN -1
                                  ELSE IF lastEvent'.offset > lastOffset THEN 1
                                  ELSE lastDirection)
             /\ lastOffset' = lastEvent'.offset
             /\ emitted' = <<>>]_vars

\* before any phase event a non-zero onScroll has left a backward direction recorded
C20_Witness ==
    /\ platform = "native" /\ IsScroll(lastEvent) /\ lastEvent.offset # 0
    /\ scrollState = "" /\ lastDirection = -1
    /\ lastOffset = lastEvent.offset /\ emitted = <<>>

\* C21: on native, a non-zero onScroll in phase settling whose offset change does
\* not agree with the recorded direction (none recorded, or backward with
\* offset >= lastOffset, or forward with offset <= lastOffset) emits nothing and
\* changes neither selectedPage nor lastDirection nor the phase; a consistent
\* onScroll that follows it in the same settle phase commits.
C21_InconsistentKeepsWaiting ==
    [][(/\ platform = "native" /\ IsScroll(lastEvent')
        /\ scrollState = "settling" /\ lastEvent'.offset # 0)
          => /\ (~Consistent(lastEvent')
                    => /\ emitted' = <<>>
                       /\ UNCHANGED <<selectedPage, lastDirection, scrollState,
                                      lastCommit>>)
             /\ ((/\ Consistent(lastEvent')
                  /\ IsScroll(lastEvent) /\ lastEvent.offset # 0 /\ emitted = <<>>)
                    => /\ Len(emitted') = 1
                       /\ emitted'[1].cb = "onPageSelecting"
                       /\ selectedPage' = emitted'[1].arg
                       /\ selectedPage' \in {lastEvent'.position,
                                             lastEvent'.position + 1}
                       /\ lastCommit' = <<selectedPage'>>)]_vars

\* in a settle phase that has not committed, a non-zero onScroll that moved
\* against the recorded forward direction has run: the direction is still
\* recorded and a larger offset can still arrive
C21_Witness ==
    /\ platform = "native" /\ scrollState = "settling" /\ settleSelecting = 0
    /\ IsScroll(lastEvent) /\ lastEvent.offset # 0 /\ emitted = <<>>
    /\ lastDirection = 1
    /\ lastOffset = lastEvent.offset /\ lastOffset < MaxOffset

RECURSIVE Pow(_, _)
Pow(k, l) == IF l = 0 THEN 1 ELSE k * Pow(k, l - 1)

\* the bijective base-K numeral of n over the alphabet, most significant
\* character first: digit values 1..K, value d written chars[d] (1-based)
RECURSIVE Bijective(_)
Bijective(n) ==
    IF n = 0 THEN <<>>
    ELSE LET d == ((n - 1) % Len(chars)) + 1
         IN Append(Bijective((n - d) \div Len(chars)), chars[d])

\* C22: the n-th string a fresh generator returns is the bijective base-K numeral
\* of n, most significant character first; the lengths never go down, and once a
\* string of length L + 1 has been returned exactly K^L strings of length L have.
C22_BijectiveNumerals ==
    /\ \A n \in DOMAIN returned : returned[n] = Bijective(n)
    /\ \A i, j \in DOMAIN returned : i < j => Len(returned[i]) <= Len(returned[j])
    /\ \A j \in DOMAIN returned :
          \A l \in 1..(Len(returned[j]) - 1) :
              Cardinality({i \in DOMAIN returned : Len(returned[i]) = l})
                  = Pow(Len(chars), l)

\* over the alphabet "xyz" the thirteenth string, the first of three characters,
\* has been returned after the three of one and the nine of two
C22_Witness ==
    /\ chars = <<"x", "y", "z">>
    /\ Len(returned) >= 14
    /\ returned[12] = <<"z", "z">>
    /\ returned[13] = <<"x", "x", "x">>
    /\ returned[14] = <<"x", "x", "y">>

\* the digit sequence read as a number, least significant digit first
RECURSIVE Value(_)
Value(id) ==
    IF id = <<>> THEN 0 ELSE id[1] + Len(chars) * Value(Tail(id))

\* C23: every stored digit lies in 0..K-1 and the digit sequence is never empty;
\* a call of next() never shortens it, lengthens it by one exactly when every
\* digit was K-1 (all digits are then 0), and otherwise adds one to its value.
C23_CounterShape ==
    /\ [](/\ Len(nextId) >= 1
          /\ \A i \in DOMAIN nextId : nextId[i] \in 0..(Len(chars) - 1))
    /\ [][Len(returned') = Len(returned) + 1
            => /\ Len(nextId') >= Len(nextId)
               /\ ((\A i \in DOMAIN nextId : nextId[i] = Len(chars) - 1)
                      <=> Len(nextId') = Len(nextId) + 1)
               /\ (Len(nextId') # Len(nextId)
                      => \A i \in DOMAIN nextId' : nextId'[i] = 0)
               /\ (Len(nextId') = Len(nextId)
                      => Value(nextId') = Value(nextId) + 1)]_vars

\* over the alphabet "ab" the counter has grown to three digits, all 0
C23_Witness ==
    /\ chars = <<"a", "b">>
    /\ Len(returned) = 6
    /\ nextId = <<0, 0, 0>>

\* C24: on native, lastDirection and lastOffset change only in a non-zero
\* onScroll; that onScroll stores its offset in every phase; lastDirection
\* becomes -1 or 1 only outside settling and becomes 0 only in a settling commit;
\* phase events, page-settled events and tab-bar selections change neither.
C24_OnlyScrollMovesTracking ==
    [][platform = "native"
          => /\ ((lastDirection' # lastDirection \/ lastOffset' # lastOffset)
                    => IsScroll(lastEvent') /\ lastEvent'.offset # 0)
             /\ ((IsScroll(lastEvent') /\ lastEvent'.offset # 0)
                    => lastOffset' = lastEvent'.offset)
             /\ ((lastDirection' # lastDirection /\ lastDirection' # 0)
                    => scrollState # "settling")
             /\ ((lastDirection' # lastDirection /\ lastDirection' = 0)
                    => /\ scrollState = "settling"
                       /\ Consistent(lastEvent')
                       /\ CountSelecting(emitted') = 1)
             /\ (lastEvent'.op \in {"onPageScrollStateChanged", "onPageSelected",
                                    "onTabBarSelect"}
                    => UNCHANGED <<lastDirection, lastOffset>>)]_vars

\* a settle phase begins with a backward direction and a non-zero offset still
\* recorded, after a page-settled event has committed a page
C24_Witness ==
    /\ platform = "native" /\ lastEvent.op = "onPageScrollStateChanged"
    /\ lastEvent.phase = "settling" /\ scrollState = "settling"
    /\ settleSelecting = 0
    /\ lastDirection = -1 /\ lastOffset > 0
    /\ lastCommit # <<>>

\* C25: on native, tab-bar onSelect(index) can run in every state; it hands index
\* to the PagerView's setPage, emits exactly one onPageSelecting(index) and no
\* onPageSelected, and changes none of selectedPage, lastOffset, lastDirection
\* and scrollState.
C25_NativeOnSelectOnlyAsks ==
    /\ [](platform = "native"
            => \A index \in Pages : ENABLED NativeOnTabBarSelect(index))
    /\ [][(platform = "native" /\ lastEvent'.op = "onTabBarSelect")
            => /\ pagerViewPage' = <<lastEvent'.position>>
               /\ emitted' = <<[cb |-> "onPageSelecting",
                                arg |-> lastEvent'.position]>>
               /\ UNCHANGED <<selectedPage, lastOffset, lastDirection,
                              scrollState, lastCommit>>]_vars

\* while dragging with a direction recorded, a page other than the selected one
\* has been chosen in the tab bar
C25_Witness ==
    /\ platform = "native" /\ lastEvent.op = "onTabBarSelect"
    /\ scrollState = "dragging" /\ lastDirection # 0
    /\ lastEvent.position # selectedPage
    /\ pagerViewPage = <<lastEvent.position>>
    /\ CountSelecting(emitted) = 1

\* C26: until the first commit, selectedPage is 0 on native whatever initialPage
\* is, and initialPage on web.
C26_NativeStartsAtZero ==
    lastCommit = <<>>
        => selectedPage = (IF platform = "native" THEN 0 ELSE initialPage)

\* a native pager mounted with the last page as initialPage has handled a tab-bar
\* selection and no commit yet
C26_Witness ==
    /\ platform = "native" /\ initialPage = MaxPage
    /\ lastEvent.op = "onTabBarSelect"
    /\ lastCommit = <<>>
    /\ selectedPage = 0

\* on web, tab-bar onSelect writes the memory entry of the page selected at the
\* call and no other, and setPage writes none
WritesOneEntry ==
    /\ (lastEvent'.op = "onTabBarSelect"
          => /\ \A p \in Pages \ {selectedPage} : scrollYs'[p] = scrollYs[p]
             /\ scrollYs'[selectedPage] =
                   (IF lastEvent'.anchorTop <= 5 THEN windowScrollY ELSE Null))
    /\ (lastEvent'.op = "setPage" => scrollYs' = scrollYs)

\* the step is a sticking onSelect of the page that is already selected
Reselects ==
    /\ lastEvent'.op = "onTabBarSelect" /\ lastEvent'.anchorTop <= 5
    /\ lastEvent'.position = selectedPage

\* the step is a sticking onSelect of a page whose entry holds an offset
ReturnsToRemembered ==
    /\ lastEvent'.op = "onTabBarSelect" /\ lastEvent'.anchorTop <= 5
    /\ scrollYs[lastEvent'.position] # Null

\* the step is a sticking onSelect of a page that was left while sticking and
\* whose entry has not been written since
ReturnsToLeft ==
    /\ lastEvent'.op = "onTabBarSelect" /\ lastEvent'.anchorTop <= 5
    /\ lastEvent'.position \in leftSticking

\* C27 (as claimed): on web, onSelect writes exactly the entry of the page
\* selected at the call and setPage writes none; a sticking onSelect(p), p having
\* been left while sticking at offset y and its entry not written since, scrolls
\* the window to y; a sticking onSelect of the selected page scrolls to the
\* current offset.
C27_RestoresRemembered ==
    [][platform = "web"
          => /\ WritesOneEntry
             /\ (ReturnsToLeft
                    => scrolledTo' = <<scrollYs[lastEvent'.position]>>)
             /\ (Reselects => scrolledTo' = <<windowScrollY>>)]_vars

\* C27 (amended): on web, onSelect writes exactly the entry of the page selected
\* at the call and setPage writes none; a page that was left while sticking
\* holds an offset in its entry; a sticking onSelect(p) made while another page
\* is selected, with an offset y held in p's entry, scrolls the window to y; a
\* sticking onSelect of the selected page scrolls to the current offset,
\* whatever its entry held.
C27_RestoresRememberedFromOtherPage ==
    [][platform = "web"
          => /\ WritesOneEntry
             /\ (ReturnsToLeft => ReturnsToRemembered)
             /\ ((ReturnsToRemembered /\ lastEvent'.position # selectedPage)
                    => scrolledTo' = <<scrollYs[lastEvent'.position]>>)
             /\ (Reselects => scrolledTo' = <<windowScrollY>>)]_vars

\* with the anchor at the threshold, an onSelect made from another page has
\* scrolled the window back to the offset remembered for the page; the page it
\* left is the only one left sticking and the entry of a third page is null
C27_Witness ==
    /\ platform = "web" /\ lastEvent.op = "onTabBarSelect"
    /\ hasAnchor /\ lastEvent.anchorTop = StickThreshold
    /\ lastEvent.from # lastEvent.position
    /\ scrolledTo = <<scrollYs[lastEvent.position]>>
    /\ scrollYs[lastEvent.position] # scrollYs[lastEvent.from]
    /\ scrollYs[lastEvent.position] # Null /\ scrollYs[lastEvent.from] # Null
    /\ leftSticking = {lastEvent.from}
    /\ \E p \in Pages : scrollYs[p] = Null

\* C28: an onEndReached call that saw isFetching true, hasNextPage false or
\* isError true calls nothing, logs nothing and returns; any other call calls
\* fetchNextPage exactly once, and when that is rejected the call logs the error
\* once and still returns normally: no call ends rejected.
C28_EndReachedGuarded ==
    \A c \in EndReachedCalls :
        LET call == endReached[c] IN
            /\ call.outcome # "rejected"
            /\ (call.pc # "idle"
                  => IF call.saw.isFetching \/ ~call.saw.hasNextPage \/ call.saw.isError
                     THEN /\ call.pc = "returned"
                          /\ call.fetchNextPage = 0
                          /\ call.logged = <<>>
                     ELSE /\ call.fetchNextPage = 1
                          /\ (call.settled = "no"
                                => call.pc = "awaiting" /\ call.logged = <<>>)
                          /\ (call.settled = "fulfilled" => call.logged = <<>>)
                          /\ (call.settled = "rejected"
                                => call.logged = <<"Failed to load more follows">>))
            /\ (call.pc = "returned" => call.outcome = "fulfilled")

\* one call has returned without fetching because the query was in error, and
\* another has fetched, seen the rejection and logged it
C28_Witness ==
    \E c, d \in EndReachedCalls :
        /\ endReached[c].pc = "returned" /\ endReached[c].saw.isError
        /\ ~endReached[c].saw.isFetching /\ endReached[c].saw.hasNextPage
        /\ endReached[c].fetchNextPage = 0
        /\ endReached[d].pc = "returned" /\ endReached[d].fetchNextPage = 1
        /\ endReached[d].settled = "rejected"
        /\ endReached[d].logged = <<"Failed to load more follows">>
        /\ endReached[d].outcome = "fulfilled"

====
